---- MODULE Spec2Model ----
(***************************************************************************)
(* Weekly meal planner (src/meal_planner_app.py): the catalog load, the    *)
(* plan kept in st.session_state, the selection pass of every script run   *)
(* and the generate handler (aggregation, rounding, sorting, prep list).   *)
(*                                                                         *)
(* Python floats are IEEE-754 binary64.  They are modelled exactly: a      *)
(* float is a 53-bit significand and a binary exponent, the significand a  *)
(* little-endian sequence of 15-bit limbs, and every operation rounds to   *)
(* nearest, ties to even, as CPython does.                                 *)
(***************************************************************************)
EXTENDS Integers, Sequences, FiniteSets, TLC

\* The value of a set of one element.  The operators below bind every
\* intermediate result that is used more than once as the element of such a
\* set, which computes it once.
The(S) == CHOOSE x \in S : TRUE

\* ------------------------------------------------------------------------
\* Natural numbers of arbitrary size (Python int, float significands):
\* little-endian sequences of limbs, without leading zero limbs
\* ------------------------------------------------------------------------
Base == 32768
LimbBits == 15

RECURSIVE Pow2(_)
Pow2(n) == IF n = 0 THEN 1 ELSE 2 * Pow2(n - 1)

RECURSIVE IntBitLen(_)
IntBitLen(n) == IF n = 0 THEN 0 ELSE 1 + IntBitLen(n \div 2)

RECURSIVE Zeros(_)
Zeros(n) == IF n = 0 THEN <<>> ELSE <<0>> \o Zeros(n - 1)

RECURSIVE BNorm(_)
BNorm(a) ==
  IF a = <<>> THEN a
  ELSE IF a[Len(a)] = 0 THEN BNorm(SubSeq(a, 1, Len(a) - 1)) ELSE a

RECURSIVE BFromInt(_)
BFromInt(n) == IF n = 0 THEN <<>> ELSE <<n % Base>> \o BFromInt(n \div Base)

RECURSIVE BToInt(_)
BToInt(a) == IF a = <<>> THEN 0 ELSE Head(a) + Base * BToInt(Tail(a))

BitLen(a) ==
  IF a = <<>> THEN 0 ELSE LimbBits * (Len(a) - 1) + IntBitLen(a[Len(a)])

BOdd(a) == a # <<>> /\ a[1] % 2 = 1

\* a + b + c from limb i on, c the carry
RECURSIVE BAddFrom(_, _, _, _)
BAddFrom(a, b, i, c) ==
  IF i > Len(a) /\ i > Len(b) THEN (IF c = 0 THEN <<>> ELSE <<c>>)
  ELSE The({<<s % Base>> \o BAddFrom(a, b, i + 1, s \div Base) :
              s \in {(IF i <= Len(a) THEN a[i] ELSE 0)
                     + (IF i <= Len(b) THEN b[i] ELSE 0) + c}})

BAdd(a, b) == BAddFrom(a, b, 1, 0)

\* a - b for a >= b, from limb i on, c the borrow
RECURSIVE BSubFrom(_, _, _, _)
BSubFrom(a, b, i, c) ==
  IF i > Len(a) THEN <<>>
  ELSE The({<<d % Base>> \o BSubFrom(a, b, i + 1, IF d < 0 THEN 1 ELSE 0) :
              d \in {a[i] - (IF i <= Len(b) THEN b[i] ELSE 0) - c}})

BSub(a, b) == The({BNorm(d) : d \in {BSubFrom(a, b, 1, 0)}})

\* -1, 0, 1 as a < b, a = b, a > b, comparing limbs i down to 1
RECURSIVE BCmpFrom(_, _, _)
BCmpFrom(a, b, i) ==
  IF i = 0 THEN 0
  ELSE IF a[i] < b[i] THEN -1
  ELSE IF a[i] > b[i] THEN 1
  ELSE BCmpFrom(a, b, i - 1)

BCmp(a, b) ==
  IF Len(a) < Len(b) THEN -1
  ELSE IF Len(a) > Len(b) THEN 1
  ELSE BCmpFrom(a, b, Len(a))

\* a * k + c from limb i on, 0 <= k < Base
RECURSIVE BMulSmallFrom(_, _, _, _)
BMulSmallFrom(a, k, i, c) ==
  IF i > Len(a) THEN (IF c = 0 THEN <<>> ELSE <<c>>)
  ELSE The({<<s % Base>> \o BMulSmallFrom(a, k, i + 1, s \div Base) :
              s \in {a[i] * k + c}})

BMulSmall(a, k) == The({BNorm(r) : r \in {BMulSmallFrom(a, k, 1, 0)}})

\* a * 2^n
BShl(a, n) ==
  IF a = <<>> THEN a
  ELSE Zeros(n \div LimbBits) \o BMulSmall(a, Pow2(n % LimbBits))

\* acc + a * (limbs j.. of b) * Base^(j-1)
RECURSIVE BMulFrom(_, _, _, _)
BMulFrom(a, b, j, acc) ==
  IF j > Len(b) THEN acc
  ELSE The({BMulFrom(a, b, j + 1, nxt) :
              nxt \in {BAdd(acc, Zeros(j - 1) \o BMulSmallFrom(a, b[j], 1, 0))}})

BMul(a, b) ==
  IF a = <<>> \/ b = <<>> THEN <<>>
  ELSE The({BNorm(r) : r \in {BMulFrom(a, b, 1, <<>>)}})

\* quotient and remainder of a by d, 0 < d < Base: limbs i down to 1, r the
\* remainder so far and q the quotient limbs so far
RECURSIVE BDivSmallFrom(_, _, _, _, _)
BDivSmallFrom(a, d, i, r, q) ==
  IF i = 0 THEN [q |-> BNorm(q), r |-> r]
  ELSE The({BDivSmallFrom(a, d, i - 1, cur % d, <<cur \div d>> \o q) :
              cur \in {r * Base + a[i]}})

BDivSmall(a, d) == BDivSmallFrom(a, d, Len(a), 0, <<>>)

\* floor(a / 2^n)
BShr(a, n) ==
  IF n \div LimbBits >= Len(a) THEN <<>>
  ELSE BDivSmall(SubSeq(a, n \div LimbBits + 1, Len(a)),
                 Pow2(n % LimbBits)).q

\* ------------------------------------------------------------------------
\* Python float: binary64, value m * 2^e with m of exactly 53 bits, or zero.
\* The values of this program stay far from the overflow and subnormal
\* ranges, so the exponent is unbounded here.
\* ------------------------------------------------------------------------
Prec == 53

FZero == [m |-> <<>>, e |-> 0]

\* M * 2^e with M of more than Prec bits, cut to Prec bits: q is the kept
\* part, c compares the cut part with half a unit of q
FRoundCut(q, c, e, sticky) ==
  The({IF BitLen(q2) > Prec
       THEN [m |-> BShr(q2, 1), e |-> e + 1]
       ELSE [m |-> q2, e |-> e] :
       q2 \in {IF c > 0 \/ (c = 0 /\ (sticky \/ BOdd(q)))
               THEN BAdd(q, <<1>>) ELSE q}})

\* the float nearest to M * 2^e (to (M + fraction) * 2^e when sticky, which
\* needs M of at least Prec + 2 bits); ties go to the even significand
FRound(M, e, sticky) ==
  The({IF L = 0 THEN FZero
       ELSE IF L <= Prec
       THEN [m |-> BShl(Mv, Prec - L), e |-> e - (Prec - L)]
       ELSE The({FRoundCut(q, BCmp(BSub(Mv, BShl(q, L - Prec)),
                                    BShl(<<1>>, L - Prec - 1)),
                            e + L - Prec, sticky) :
                   q \in {BShr(Mv, L - Prec)}}) :
       <<Mv, L>> \in {<<x, BitLen(x)>> : x \in {M}}})

\* float(n) for a Python int n >= 0
FFromInt(n) == FRound(BFromInt(n), 0, FALSE)

\* a / b for Python ints a >= 0, 0 < b < Base: true division, correctly rounded
DivGuard == 75
IntTrueDiv(a, b) ==
  The({FRound(qr.q, -DivGuard, qr.r # 0) :
         qr \in {BDivSmall(BShl(BFromInt(a), DivGuard), b)}})

FMul(x, y) == FRound(BMul(x.m, y.m), x.e + y.e, FALSE)

\* x + y over the smaller exponent e of the two
FAddAt(x, y, e) ==
  FRound(BAdd(BShl(x.m, x.e - e), BShl(y.m, y.e - e)), e, FALSE)

FAdd(x, y) ==
  IF x.m = <<>> THEN y
  ELSE IF y.m = <<>> THEN x
  ELSE FAddAt(x, y, IF x.e < y.e THEN x.e ELSE y.e)

\* math.ceil(x) as a Python int, x >= 0
FCeil(x) ==
  IF x.m = <<>> THEN 0
  ELSE IF x.e >= 0 THEN BToInt(BShl(x.m, x.e))
  ELSE The({BToInt(q) + (IF BShl(q, -x.e) = x.m THEN 0 ELSE 1) :
              q \in {BShr(x.m, -x.e)}})

\* ------------------------------------------------------------------------
\* Python str order (code points, case-sensitive) and sorted()
\* ------------------------------------------------------------------------
CodePoints ==
  "oats" :> <<111, 97, 116, 115>> @@
  "flour" :> <<102, 108, 111, 117, 114>> @@
  "oil" :> <<111, 105, 108>> @@
  "lettuce" :> <<108, 101, 116, 116, 117, 99, 101>> @@
  "Tortilla" :> <<84, 111, 114, 116, 105, 108, 108, 97>> @@
  "g" :> <<103>> @@
  "kg" :> <<107, 103>> @@
  "l" :> <<108>> @@
  "tbsp" :> <<116, 98, 115, 112>> @@
  "head" :> <<104, 101, 97, 100>> @@
  "pc" :> <<112, 99>> @@
  "Oat Bowl" :> <<79, 97, 116, 32, 66, 111, 119, 108>> @@
  "Stew" :> <<83, 116, 101, 119>> @@
  "Wrap" :> <<87, 114, 97, 112>> @@
  "Garden Salad" :> <<71, 97, 114, 100, 101, 110, 32, 83, 97, 108, 97, 100>>

RECURSIVE SeqLess(_, _)
SeqLess(a, b) ==
  IF b = <<>> THEN FALSE
  ELSE IF a = <<>> THEN TRUE
  ELSE IF Head(a) # Head(b) THEN Head(a) < Head(b)
  ELSE SeqLess(Tail(a), Tail(b))

StrLess(a, b) == SeqLess(CodePoints[a], CodePoints[b])

\* sorted(...) of a collection of distinct strings
RECURSIVE SortedStrs(_)
SortedStrs(S) ==
  IF S = {} THEN <<>>
  ELSE LET lo == CHOOSE x \in S : \A y \in S \ {x} : StrLess(x, y)
       IN <<lo>> \o SortedStrs(S \ {lo})

SeqToSet(q) == {q[i] : i \in 1..Len(q)}

\* ------------------------------------------------------------------------
\* Python dict with insertion order: a sequence of [key, val], keys distinct
\* ------------------------------------------------------------------------
EmptyDict == <<>>

DHas(d, k) == \E i \in 1..Len(d) : d[i].key = k

DIndex(d, k) == CHOOSE i \in 1..Len(d) : d[i].key = k

DGet(d, k) == d[DIndex(d, k)].val

DGetOr(d, k, dflt) == IF DHas(d, k) THEN DGet(d, k) ELSE dflt

DSet(d, k, v) ==
  IF DHas(d, k) THEN [d EXCEPT ![DIndex(d, k)].val = v]
  ELSE Append(d, [key |-> k, val |-> v])

DDel(d, k) ==
  LET i == DIndex(d, k)
  IN SubSeq(d, 1, i - 1) \o SubSeq(d, i + 1, Len(d))

DKeys(d) == [i \in 1..Len(d) |-> d[i].key]

\* a dict whose iteration order is never observed: a function on its keys
NoFields == [f \in {} |-> 0]

FSet(e, f, v) == [x \in (DOMAIN e) \cup {f} |-> IF x = f THEN v ELSE e[x]]

FDel(e, f) == [x \in (DOMAIN e) \ {f} |-> e[x]]

FGetOr(e, f, dflt) == IF f \in DOMAIN e THEN e[f] ELSE dflt

\* ------------------------------------------------------------------------
\* The catalog file and load_meals
\* ------------------------------------------------------------------------
\* a JSON number as json.load returns it: an int, or the float nearest to
\* the decimal literal num/den
JInt(n) == [t |-> "int", n |-> n]
JFloat(num, den) == [t |-> "float", f |-> IntTrueDiv(num, den)]

Ing(item, quantity, unit) == [item |-> item, quantity |-> quantity, unit |-> unit]

OatBowl ==
  [name |-> "Oat Bowl", type |-> <<"Breakfast">>, difficulty |-> "Easy",
   default_portions |-> 2, meal_prep |-> TRUE,
   ingredients |-> <<Ing("oats", JInt(200), "g")>>]

Stew ==
  [name |-> "Stew", type |-> <<"Lunch", "Dinner">>, difficulty |-> "Medium",
   ingredients |-> <<Ing("flour", JFloat(11, 10), "kg"),
                     Ing("oil", JFloat(1, 10), "l")>>]

Wrap ==
  [name |-> "Wrap", type |-> <<"Lunch">>, difficulty |-> "Easy",
   default_portions |-> 3, meal_prep |-> FALSE,
   ingredients |-> <<Ing("Tortilla", JInt(2), "pc")>>]

GardenSalad ==
  [name |-> "Garden Salad", type |-> <<"Lunch", "Dinner">>,
   difficulty |-> "Easy", is_salad |-> TRUE, meal_prep |-> TRUE,
   ingredients |-> <<Ing("lettuce", JInt(1), "head"),
                     Ing("oil", JFloat(4, 10), "tbsp")>>]

WeekCatalog == <<OatBowl, Stew, Wrap, GardenSalad>>

\* what meals.json can be when a script run opens it
FileStates ==
  { [kind |-> "missing"], [kind |-> "invalid_json"],
    [kind |-> "undecodable"],
    [kind |-> "json", value |-> <<>>],
    [kind |-> "json", value |-> WeekCatalog] }

\* load_meals: ret is the returned list, diag the st.error shown, exc the
\* exception that leaves the function
load_meals(f) ==
  CASE f.kind = "missing" ->
         [ret |-> <<>>, diag |-> "file_not_found", exc |-> "none"]
    [] f.kind = "invalid_json" ->
         [ret |-> <<>>, diag |-> "invalid_json", exc |-> "none"]
    [] f.kind = "undecodable" ->
         [ret |-> <<>>, diag |-> "none", exc |-> "UnicodeDecodeError"]
    [] f.kind = "json" ->
         [ret |-> f.value, diag |-> "none", exc |-> "none"]

\* get_meal_by_name: the first record of that name, or None
NoMeal == [found |-> FALSE]

\* get_meal_by_name that falls back on the first record of the catalog
get_meal_by_name_or_first(name, meals_db) ==
  IF \E i \in 1..Len(meals_db) : meals_db[i].name = name
  THEN [found |-> TRUE,
        meal |-> meals_db[CHOOSE i \in 1..Len(meals_db) :
                            /\ meals_db[i].name = name
                            /\ \A j \in 1..(i - 1) : meals_db[j].name # name]]
  ELSE IF meals_db # <<>> THEN [found |-> TRUE, meal |-> meals_db[1]]
  ELSE NoMeal

RECURSIVE get_meal_by_name(_, _)
get_meal_by_name(name, meals_db) ==
  IF meals_db = <<>> THEN NoMeal
  ELSE IF Head(meals_db).name = name
       THEN [found |-> TRUE, meal |-> Head(meals_db)]
       ELSE get_meal_by_name(name, Tail(meals_db))

\* ------------------------------------------------------------------------
\* The selection pass of a script run (the "Plan Your Week" loop)
\* ------------------------------------------------------------------------
days_of_week ==
  <<"Sunday", "Monday", "Tuesday", "Wednesday", "Thursday", "Friday",
    "Saturday">>

meal_types == <<"Breakfast", "Lunch", "Dinner">>

SaladSlots == {"Lunch", "Dinner"}

Cells == SeqToSet(days_of_week) \X SeqToSet(meal_types)

SaladCells == {c \in Cells : c[2] \in SaladSlots}

MealNames(q) == [i \in 1..Len(q) |-> q[i].name]

\* the options of the main selectbox of a slot, and of the salad selectbox
meal_options(meals, meal_type) ==
  <<"-">> \o
  MealNames(SelectSeq(meals,
              LAMBDA m : meal_type \in SeqToSet(m.type)
                         /\ ~ FGetOr(m, "is_salad", FALSE)))

salad_options(meals) ==
  <<"-">> \o MealNames(SelectSeq(meals, LAMBDA m : FGetOr(m, "is_salad", FALSE)))

\* MainStep without its elif branch: a main set back to "-" stays stored
MainStepKeepsStale(p, day, meal_type, selected_meal, num_people) ==
  IF selected_meal # "-"
  THEN DSet(p, day,
            DSet(DGetOr(p, day, EmptyDict), meal_type,
                 FSet(FSet(NoFields, "name", selected_meal),
                      "people", num_people)))
  ELSE p

\* the main control of one slot: store the selection or delete the entry
MainStep(p, day, meal_type, selected_meal, num_people) ==
  LET meals == DGetOr(p, day, EmptyDict)
  IN IF selected_meal # "-"
     THEN DSet(p, day,
               DSet(meals, meal_type,
                    FSet(FSet(NoFields, "name", selected_meal),
                         "people", num_people)))
     ELSE IF DHas(meals, meal_type)
          THEN DSet(p, day, DDel(meals, meal_type))
          ELSE p

\* SaladStep whose elif branch deletes the slot's entry, not its 'salad' key
SaladStepDropsEntry(p, day, meal_type, selected_salad) ==
  LET meals == DGetOr(p, day, EmptyDict)
  IN IF selected_salad # "-"
     THEN DSet(p, day,
               DSet(meals, meal_type,
                    FSet(DGetOr(meals, meal_type, NoFields), "salad",
                         selected_salad)))
     ELSE IF DHas(meals, meal_type)
          THEN DSet(p, day, DDel(meals, meal_type))
          ELSE p

\* the salad control of one Lunch or Dinner slot
SaladStep(p, day, meal_type, selected_salad) ==
  LET meals == DGetOr(p, day, EmptyDict)
      entry == DGetOr(meals, meal_type, NoFields)
  IN IF selected_salad # "-"
     THEN DSet(p, day,
               DSet(meals, meal_type, FSet(entry, "salad", selected_salad)))
     ELSE IF "salad" \in DOMAIN entry
          THEN DSet(p, day, DSet(meals, meal_type, FDel(entry, "salad")))
          ELSE p

SlotStep(p, day, meal_type, wm, wp, ws) ==
  The({IF meal_type \in SaladSlots
       THEN SaladStep(p1, day, meal_type, ws[<<day, meal_type>>])
       ELSE p1 :
       p1 \in {MainStep(p, day, meal_type, wm[<<day, meal_type>>],
                        wp[<<day, meal_type>>])}})

RECURSIVE SlotLoop(_, _, _, _, _, _)
SlotLoop(p, day, j, wm, wp, ws) ==
  IF j > Len(meal_types) THEN p
  ELSE The({SlotLoop(q, day, j + 1, wm, wp, ws) :
              q \in {SlotStep(p, day, meal_types[j], wm, wp, ws)}})

\* one day column: the day's dict is created when missing
DayStep(p, day, wm, wp, ws) ==
  The({SlotLoop(q, day, 1, wm, wp, ws) :
         q \in {IF DHas(p, day) THEN p ELSE DSet(p, day, EmptyDict)}})

RECURSIVE DayLoop(_, _, _, _, _)
DayLoop(p, i, wm, wp, ws) ==
  IF i > Len(days_of_week) THEN p
  ELSE The({DayLoop(q, i + 1, wm, wp, ws) :
              q \in {DayStep(p, days_of_week[i], wm, wp, ws)}})

\* session_state after the pass: the plan is created when missing
SelectionPass(ss, wm, wp, ws) ==
  LET plan0 == IF "plan" \in DOMAIN ss THEN ss.plan ELSE EmptyDict
  IN [plan |-> DayLoop(plan0, 1, wm, wp, ws)]

\* ------------------------------------------------------------------------
\* The generate handler
\* ------------------------------------------------------------------------
\* quantity * scaling_factor: an int quantity is converted to float first
ScaledQuantity(quantity, scaling_factor) ==
  FMul(IF quantity.t = "int" THEN FFromInt(quantity.n) ELSE quantity.f,
       scaling_factor)

\* shopping_list[item]['quantity'] += ...; shopping_list[item]['units'].add
\* (the defaultdict starts an item at quantity 0 and no unit)
AddIngredient(shopping_list, ingredient, scaling_factor) ==
  The({DSet(shopping_list, ingredient.item,
            [quantity |-> FAdd(data.quantity,
                               ScaledQuantity(ingredient.quantity,
                                              scaling_factor)),
             units |-> data.units \cup {ingredient.unit}]) :
         data \in {DGetOr(shopping_list, ingredient.item,
                          [quantity |-> FZero, units |-> {}])}})

RECURSIVE IngredientLoop(_, _, _)
IngredientLoop(shopping_list, ingredients, scaling_factor) ==
  IF ingredients = <<>> THEN shopping_list
  ELSE The({IngredientLoop(sl, Tail(ingredients), scaling_factor) :
              sl \in {AddIngredient(shopping_list, Head(ingredients),
                                    scaling_factor)}})

\* num_people / default_portions
ScalingFactor(meal_details, num_people) ==
  IntTrueDiv(num_people, FGetOr(meal_details, "default_portions", 1))

\* AddMeal that appends the name whatever the meal_prep flag says
AddMealAlwaysPrep(acc, meal_details, num_people) ==
  [acc EXCEPT
     !.prep_list = Append(@, meal_details.name),
     !.shopping_list =
        The({IngredientLoop(@, meal_details.ingredients, sf) :
               sf \in {ScalingFactor(meal_details, num_people)}})]

\* the body of add_ingredients_to_list once the record is found; acc holds
\* the handler's locals
AddMeal(acc, meal_details, num_people) ==
  [acc EXCEPT
     !.prep_list =
        IF FGetOr(meal_details, "meal_prep", FALSE)
        THEN Append(@, meal_details.name) ELSE @,
     !.shopping_list =
        The({IngredientLoop(@, meal_details.ingredients, sf) :
               sf \in {ScalingFactor(meal_details, num_people)}})]

add_ingredients_to_list(acc, meal_name, num_people, meals) ==
  The({IF ~ found.found THEN acc
       ELSE AddMeal(acc, found.meal, num_people) :
       found \in {get_meal_by_name(meal_name, meals)}})

\* the 'name' branch of one (meal_type, selection) of the plan: found is
\* main_meal_details
MainBranch(acc, day, meal_type, selection, meals) ==
  IF "name" \notin DOMAIN selection THEN acc
  ELSE The({IF ~ found.found THEN [acc EXCEPT !.is_plan_empty = FALSE]
            ELSE add_ingredients_to_list(
                   [acc EXCEPT
                      !.is_plan_empty = FALSE,
                      !.final_plan =
                         DSet(@, day,
                              DSet(DGetOr(@, day, EmptyDict), meal_type,
                                   [name |-> found.meal.name,
                                    difficulty |-> found.meal.difficulty]))],
                   selection.name, selection.people, meals) :
              found \in {get_meal_by_name(selection.name, meals)}})

\* SaladBranch that always scales the salad for one person
SaladBranchOnePerson(acc, day, meal_type, selection, meals) ==
  IF "salad" \notin DOMAIN selection THEN acc
  ELSE add_ingredients_to_list([acc EXCEPT !.is_plan_empty = FALSE],
                               selection.salad, 1, meals)

\* the 'salad' branch
SaladBranch(acc, day, meal_type, selection, meals) ==
  IF "salad" \notin DOMAIN selection THEN acc
  ELSE The({add_ingredients_to_list(
              [acc EXCEPT !.is_plan_empty = FALSE],
              selection.salad, num_people_salad, meals) :
              num_people_salad \in {FGetOr(selection, "people", 1)}})

RECURSIVE SelectionLoop(_, _, _, _)
SelectionLoop(acc, day, day_meals, meals) ==
  IF day_meals = <<>> THEN acc
  ELSE LET meal_type == Head(day_meals).key
           selection == Head(day_meals).val
       IN The({SelectionLoop(a2, day, Tail(day_meals), meals) :
                 a2 \in {SaladBranch(a1, day, meal_type, selection, meals) :
                   a1 \in {MainBranch(acc, day, meal_type, selection,
                                      meals)}}})

RECURSIVE PlanLoop(_, _, _)
PlanLoop(acc, plan, meals) ==
  IF plan = <<>> THEN acc
  ELSE LET day == Head(plan).key
           a0 == [acc EXCEPT !.final_plan = DSet(@, day, EmptyDict)]
       IN The({PlanLoop(a1, Tail(plan), meals) :
                 a1 \in {SelectionLoop(a0, day, Head(plan).val, meals)}})

Aggregate(plan, meals) ==
  PlanLoop([shopping_list |-> EmptyDict, final_plan |-> EmptyDict,
            prep_list |-> <<>>, is_plan_empty |-> TRUE],
           plan, meals)

\* final_quantity = math.ceil(data['quantity'] * 100) / 100
FinalQuantity(quantity) ==
  IntTrueDiv(FCeil(FMul(quantity, FFromInt(100))), 100)

\* the rows [item, final_quantity, units_str] in sorted(shopping_list.items())
\* order; units_str is kept as the sorted sequence of units that it joins
ShoppingDfData(shopping_list) ==
  The({[i \in 1..Len(items) |->
          The({[item |-> items[i],
                quantity |-> FinalQuantity(data.quantity),
                unit |-> SortedStrs(data.units)] :
                 data \in {DGet(shopping_list, items[i])}})] :
         items \in {SortedStrs(SeqToSet(DKeys(shopping_list)))}})

\* create_meal_plan_image: what the grid cells and the notes block show
create_meal_plan_image(plan, prep_list) ==
  [grid |-> [c \in Cells |->
               LET meal_info == DGetOr(DGetOr(plan, c[1], EmptyDict), c[2],
                                       NoFields)
               IN IF "name" \in DOMAIN meal_info
                  THEN <<meal_info.name, meal_info.difficulty>> ELSE <<>>],
   notes |-> prep_list]

NoImage == [grid |-> [c \in Cells |-> <<>>], notes |-> <<>>]

\* the lines of shopping_list_text after its two header lines
RECURSIVE TextLines(_)
TextLines(rows) ==
  IF rows = <<>> THEN <<>>
  ELSE <<[item |-> Head(rows).item, quantity |-> Head(rows).quantity,
          unit |-> Head(rows).unit]>> \o TextLines(Tail(rows))

\* what a run shows below the button (clicked is FALSE when the button was
\* not pressed in that run) and the handler's locals when it returns
NoOutput ==
  [clicked |-> FALSE, warning |-> FALSE, shown |-> FALSE,
   shopping_list |-> EmptyDict, final_plan |-> EmptyDict,
   prep_list |-> <<>>, is_plan_empty |-> TRUE,
   shopping_df_data |-> <<>>, shopping_list_text |-> <<>>,
   unique_prep_list |-> <<>>, image |-> NoImage, prep_notes |-> <<>>]

\* the handler's locals after the loop over the plan
Locals(a) ==
  [NoOutput EXCEPT
     !.clicked = TRUE,
     !.shopping_list = a.shopping_list,
     !.final_plan = a.final_plan,
     !.prep_list = a.prep_list,
     !.is_plan_empty = a.is_plan_empty]

\* the else branch of "if is_plan_empty": table, text, image, notes
Artifacts(locals, shopping_df_data, unique_prep_list) ==
  [locals EXCEPT
     !.shown = TRUE,
     !.shopping_df_data = shopping_df_data,
     !.shopping_list_text = TextLines(shopping_df_data),
     !.unique_prep_list = unique_prep_list,
     !.image = create_meal_plan_image(locals.final_plan, unique_prep_list),
     !.prep_notes = IF locals.prep_list # <<>>
                    THEN SortedStrs(SeqToSet(locals.prep_list)) ELSE <<>>]

GenerateHandler(plan, meals) ==
  The({IF locals.is_plan_empty
       THEN [locals EXCEPT !.warning = TRUE]
       ELSE The({Artifacts(locals, df, upl) :
                   df \in {ShoppingDfData(locals.shopping_list)},
                   upl \in {SortedStrs(SeqToSet(locals.prep_list))}}) :
       locals \in {Locals(a) : a \in {Aggregate(plan, meals)}}})

\* ------------------------------------------------------------------------
\* The session: one action is one whole run of the script
\* ------------------------------------------------------------------------
VARIABLES
  file,           \* what meals.json is during the session
  ran,            \* the script has run at least once
  MEALS,          \* the list load_meals returned in the last run
  diag,           \* the st.error diagnostic of the last run
  exc,            \* the exception that ended the last run, if any
  ui,             \* the last run rendered the controls and the button
  session_state,  \* st.session_state: no key, or the key 'plan'
  wMeal,          \* value of the main selectbox of each slot
  wPeople,        \* value of the people number_input of each slot
  wSalad,         \* value of the salad selectbox of each salad slot
  cleared,        \* history: the control the user just set to "-", if any
  out             \* output of the generate handler in the last run

vars == <<file, ran, MEALS, diag, exc, ui, session_state, wMeal, wPeople,
          wSalad, cleared, out>>

\* bounds of the user's inputs: the number of slots whose controls are
\* touched and the largest people count entered
ActiveCells == 2
MaxPeople == 2

\* the slots in the order in which they become touched: Lunch, Dinner and
\* Breakfast of Sunday, then of Monday, ...
CellIndex(c) ==
  LET d == CHOOSE i \in 1..Len(days_of_week) : days_of_week[i] = c[1]
      t == CHOOSE j \in 1..3 : <<"Lunch", "Dinner", "Breakfast">>[j] = c[2]
  IN (d - 1) * 3 + t

Active == {c \in Cells : CellIndex(c) <= ActiveCells}

NoSession == [k \in {} |-> 0]

NothingCleared == [role |-> "none", cell |-> <<>>]

Init ==
  /\ file \in FileStates
  /\ ran = FALSE
  /\ MEALS = <<>>
  /\ diag = "none"
  /\ exc = "none"
  /\ ui = FALSE
  /\ session_state = NoSession
  /\ wMeal = [c \in Cells |-> "-"]
  /\ wPeople = [c \in Cells |-> 1]
  /\ wSalad = [c \in SaladCells |-> "-"]
  /\ cleared = NothingCleared
  /\ out = NoOutput

\* one run of the script with the widget values wm, wp, ws; button tells
\* whether the generate button was pressed
ScriptRun(wm, wp, ws, button) ==
  /\ UNCHANGED file
  /\ ran' = TRUE
  /\ wMeal' = wm
  /\ wPeople' = wp
  /\ wSalad' = ws
  /\ \E loaded \in {load_meals(file)} :
       /\ diag' = loaded.diag
       /\ exc' = loaded.exc
       /\ IF loaded.exc # "none"
          THEN /\ UNCHANGED <<MEALS, session_state>>
               /\ ui' = FALSE
               /\ out' = NoOutput
          ELSE /\ MEALS' = loaded.ret
               /\ IF loaded.ret # <<>>
                  THEN /\ ui' = TRUE
                       /\ session_state' =
                            SelectionPass(session_state, wm, wp, ws)
                       /\ out' = IF button
                                 THEN GenerateHandler(session_state'.plan,
                                                      loaded.ret)
                                 ELSE NoOutput
                  ELSE /\ ui' = FALSE
                       /\ UNCHANGED session_state
                       /\ out' = NoOutput

\* the first load of the page, or a rerun without any input
Rerun ==
  /\ ScriptRun(wMeal, wPeople, wSalad, FALSE)
  /\ cleared' = NothingCleared

SetMeal ==
  /\ ui
  /\ \E c \in Active :
       \E v \in SeqToSet(meal_options(MEALS, c[2])) \ {wMeal[c]} :
         /\ ScriptRun([wMeal EXCEPT ![c] = v], wPeople, wSalad, FALSE)
         /\ cleared' = IF v = "-" THEN [role |-> "main", cell |-> c]
                       ELSE NothingCleared

SetPeople ==
  /\ ui
  /\ \E c \in Active :
       \E n \in (1..MaxPeople) \ {wPeople[c]} :
         /\ ScriptRun(wMeal, [wPeople EXCEPT ![c] = n], wSalad, FALSE)
         /\ cleared' = NothingCleared

SetSalad ==
  /\ ui
  /\ \E c \in Active \cap SaladCells :
       \E v \in SeqToSet(salad_options(MEALS)) \ {wSalad[c]} :
         /\ ScriptRun(wMeal, wPeople, [wSalad EXCEPT ![c] = v], FALSE)
         /\ cleared' = IF v = "-" THEN [role |-> "salad", cell |-> c]
                       ELSE NothingCleared

ClickGenerate ==
  /\ ui
  /\ ScriptRun(wMeal, wPeople, wSalad, TRUE)
  /\ cleared' = NothingCleared

Next == Rerun \/ SetMeal \/ SetPeople \/ SetSalad \/ ClickGenerate

Spec == Init /\ [][Next]_vars

\* ------------------------------------------------------------------------
\* The generate handler alone, on the plans its loop can be given
\* ------------------------------------------------------------------------
\* names a plan can hold: catalog names and a name of no record
AggNames == {"Stew", "Wrap", "Ghost"}
AggSalads == {"Garden Salad", "Ghost"}

AggEntries ==
  {FSet(FSet(NoFields, "name", n), "people", k) :
     n \in AggNames, k \in 1..MaxPeople}
  \cup
  {FSet(FSet(FSet(NoFields, "name", n), "people", k), "salad", x) :
     n \in AggNames, k \in 1..MaxPeople, x \in AggSalads}
  \cup
  {FSet(NoFields, "salad", x) : x \in AggSalads}

\* the Sunday column: no slot, one slot, or Lunch and Dinner in either order
AggDays ==
  {EmptyDict}
  \cup {<<[key |-> t, val |-> e]>> : t \in SaladSlots, e \in AggEntries}
  \cup {<<[key |-> t[1], val |-> e1], [key |-> t[2], val |-> e2]>> :
          t \in {<<"Lunch", "Dinner">>, <<"Dinner", "Lunch">>},
          e1 \in AggEntries, e2 \in AggEntries}

EmptyWeek ==
  [i \in 1..Len(days_of_week) |-> [key |-> days_of_week[i], val |-> EmptyDict]]

AggPlans == {DSet(EmptyWeek, "Sunday", d) : d \in AggDays}

AggInit ==
  /\ file = [kind |-> "json", value |-> WeekCatalog]
  /\ ran = TRUE
  /\ MEALS = WeekCatalog
  /\ diag = "none"
  /\ exc = "none"
  /\ ui = TRUE
  /\ session_state \in {[plan |-> p] : p \in AggPlans}
  /\ wMeal = [c \in Cells |-> "-"]
  /\ wPeople = [c \in Cells |-> 1]
  /\ wSalad = [c \in SaladCells |-> "-"]
  /\ cleared = NothingCleared
  /\ out = NoOutput

\* the body of "if st.button(...)" on the stored plan
AggGenerate ==
  /\ out' = GenerateHandler(session_state.plan, MEALS)
  /\ UNCHANGED <<file, ran, MEALS, diag, exc, ui, session_state, wMeal,
                 wPeople, wSalad, cleared>>

AggNext == AggGenerate

AggSpec == AggInit /\ [][AggNext]_vars

\* ------------------------------------------------------------------------
\* Properties of the session
\* ------------------------------------------------------------------------
\* the stored entry of a slot (no field when the slot has no entry)
HasEntry(ss, c) == DHas(DGetOr(ss.plan, c[1], EmptyDict), c[2])
Entry(ss, c) == DGetOr(DGetOr(ss.plan, c[1], EmptyDict), c[2], NoFields)

SaladChosen(c) == c \in SaladCells /\ wSalad[c] # "-"

\* C10: at the end of every pass the stored plan is determined by the
\* current control values: a slot's entry holds the main and the current
\* people count exactly when the main control is not "-", a salad exactly
\* when the slot is Lunch or Dinner and its salad control is not "-", no
\* people count when the main control is "-", and no entry is empty.
C10_PlanFollowsControls ==
  ui =>
    /\ "plan" \in DOMAIN session_state
    /\ SeqToSet(DKeys(session_state.plan)) = SeqToSet(days_of_week)
    /\ \A c \in Cells :
         LET e == Entry(session_state, c)
         IN /\ ("name" \in DOMAIN e) <=> (wMeal[c] # "-")
            /\ wMeal[c] # "-" =>
                 /\ e.name = wMeal[c]
                 /\ "people" \in DOMAIN e
                 /\ e.people = wPeople[c]
            /\ wMeal[c] = "-" => "people" \notin DOMAIN e
            /\ ("salad" \in DOMAIN e) <=> SaladChosen(c)
            /\ SaladChosen(c) => e.salad = wSalad[c]
            /\ DOMAIN e \subseteq {"name", "people", "salad"}
            /\ HasEntry(session_state, c) => DOMAIN e # {}

\* a pass that follows a history: a main was just cleared in a slot whose
\* people control is not at its default and whose salad is chosen, while
\* another slot holds a main
C10_Witness ==
  /\ ui
  /\ cleared.role = "main"
  /\ \E c \in SaladCells :
       /\ cleared.cell = c
       /\ wPeople[c] > 1
       /\ wSalad[c] # "-"
       /\ \E d \in Cells \ {c} : wMeal[d] # "-"

\* C1: in every run, setting a slot's main control to "-" removes the
\* slot's main entry and keeps a salad stored in that slot, and setting the
\* salad control to "-" removes the salad and keeps the slot's main (its
\* name and its people count).
C1_ClearingKeepsTheOther ==
  [][ (ui /\ ui') =>
        \A c \in Cells :
          LET e == Entry(session_state, c)
              f == Entry(session_state', c)
          IN /\ (wMeal[c] # "-" /\ wMeal'[c] = "-") =>
                  /\ "name" \notin DOMAIN f
                  /\ "salad" \in DOMAIN e =>
                       ("salad" \in DOMAIN f /\ f.salad = e.salad)
             /\ (c \in SaladCells /\ wSalad[c] # "-" /\ wSalad'[c] = "-") =>
                  /\ "salad" \notin DOMAIN f
                  /\ "name" \in DOMAIN e =>
                       /\ "name" \in DOMAIN f /\ f.name = e.name
                       /\ "people" \in DOMAIN f /\ f.people = e.people
    ]_vars

\* the run that just ended cleared the main of a slot that holds a salad,
\* and the salad is still stored
C1_Witness ==
  /\ ui
  /\ cleared.role = "main"
  /\ cleared.cell \in SaladCells
  /\ "salad" \in DOMAIN Entry(session_state, cleared.cell)
  /\ "name" \notin DOMAIN Entry(session_state, cleared.cell)

\* the people count a salad of slot c is to be scaled with
SaladPeople(c) == IF wMeal[c] # "-" THEN wPeople[c] ELSE 1

RECURSIVE SumSaladPeople(_, _)
SumSaladPeople(S, salad) ==
  IF S = {} THEN 0
  ELSE LET c == CHOOSE x \in S : TRUE
       IN (IF wSalad[c] = salad THEN SaladPeople(c) ELSE 0)
          + SumSaladPeople(S \ {c}, salad)

\* the raw total of an item, absent when nothing was added to it
RawTotalIs(item, num, den) ==
  IF num = 0 THEN ~ DHas(out.shopping_list, item)
  ELSE /\ DHas(out.shopping_list, item)
       /\ DGet(out.shopping_list, item).quantity = IntTrueDiv(num, den)

\* C5: a salad is scaled with the people count of the main selected in its
\* slot, and with 1 when the slot has no main.  In the catalog lettuce is
\* bought only for the Garden Salad, 1 head for 1 person, and sums of small
\* integers are exact in binary: the lettuce total is the sum, over the
\* slots with a Garden Salad, of the slot's main's people count, or of 1.
C5_SaladScaledWithMain ==
  out.clicked =>
    RawTotalIs("lettuce", SumSaladPeople(SaladCells, "Garden Salad"), 1)

\* generate ran with a salad beside a main for MaxPeople persons in one
\* slot and a salad without a main in another slot whose people control is
\* not at 1
C5_Witness ==
  /\ out.shown
  /\ \E c, d \in SaladCells :
       /\ c # d
       /\ wSalad[c] # "-" /\ wMeal[c] # "-" /\ wPeople[c] = MaxPeople
       /\ wSalad[d] # "-" /\ wMeal[d] = "-" /\ wPeople[d] > 1

\* the names stored in the plan, mains and salads
PlanNames(ss) ==
  {Entry(ss, c).name : c \in {x \in Cells : "name" \in DOMAIN Entry(ss, x)}}
  \cup
  {Entry(ss, c).salad : c \in {x \in Cells : "salad" \in DOMAIN Entry(ss, x)}}

\* the names of the catalog records whose meal_prep flag is present and true
PrepNames(meals) ==
  {meals[i].name : i \in {j \in 1..Len(meals) :
                            /\ "meal_prep" \in DOMAIN meals[j]
                            /\ meals[j].meal_prep = TRUE}}

\* C9: the prep-ahead list given to the timetable image and shown in the
\* notes holds exactly the names of the plan's mains and salads whose record
\* has meal_prep true, each name once, and no name whose flag is false or
\* absent.
C9_PrepListExact ==
  out.shown =>
    /\ SeqToSet(out.unique_prep_list)
         = PlanNames(session_state) \cap PrepNames(MEALS)
    /\ Len(out.unique_prep_list) = Cardinality(SeqToSet(out.unique_prep_list))
    /\ out.image.notes = out.unique_prep_list
    /\ out.prep_notes = out.unique_prep_list

\* generate ran on a plan that selects one prep-ahead salad in two slots,
\* beside a main whose flag is absent and a main whose flag is false
C9_Witness ==
  /\ out.shown
  /\ \E c, d \in SaladCells :
       /\ c # d
       /\ wSalad[c] = wSalad[d]
       /\ wSalad[c] \in PrepNames(MEALS)
       /\ wMeal[c] = "Stew" /\ "meal_prep" \notin DOMAIN Stew
       /\ wMeal[d] = "Wrap" /\ Wrap.meal_prep = FALSE
  /\ Len(out.unique_prep_list) = 1

\* C4: when meals.json is missing or cannot be parsed, load_meals returns
\* an empty catalog and shows a diagnostic, no exception leaves it, the
\* run renders no selection control and no generate button, and the plan
\* is never created.
C4_LoadFailureIsQuiet ==
  (ran /\ file.kind \in {"missing", "invalid_json", "undecodable"}) =>
    /\ exc = "none"
    /\ diag # "none"
    /\ MEALS = <<>>
    /\ ~ ui
    /\ "plan" \notin DOMAIN session_state
    /\ out = NoOutput

\* what does hold of C4: the two failures load_meals catches
C4_CaughtFailuresAreQuiet ==
  (ran /\ file.kind \in {"missing", "invalid_json"}) =>
    /\ exc = "none"
    /\ diag = (IF file.kind = "missing" THEN "file_not_found"
               ELSE "invalid_json")
    /\ MEALS = <<>>
    /\ ~ ui
    /\ "plan" \notin DOMAIN session_state
    /\ out = NoOutput

\* ------------------------------------------------------------------------
\* Exact arithmetic for the numeric properties: m * 2^e with any m
\* ------------------------------------------------------------------------
MinExp(x, y) == IF x.e < y.e THEN x.e ELSE y.e

DScale(x, k) == [m |-> BMulSmall(x.m, k), e |-> x.e]

DAddAt(x, y, e) ==
  [m |-> BAdd(BShl(x.m, x.e - e), BShl(y.m, y.e - e)), e |-> e]

DAdd(x, y) ==
  IF x.m = <<>> THEN y
  ELSE IF y.m = <<>> THEN x
  ELSE DAddAt(x, y, MinExp(x, y))

\* the order of x and y: -1, 0, 1
DCmp(x, y) ==
  BCmp(BShl(x.m, x.e - MinExp(x, y)), BShl(y.m, y.e - MinExp(x, y)))

DOne == [m |-> <<1>>, e |-> 0]

\* the exact value of a catalog quantity as the handler reads it
QExact(quantity) ==
  IF quantity.t = "int" THEN [m |-> BFromInt(quantity.n), e |-> 0]
  ELSE quantity.f

\* a common multiple of the catalog's default_portions
RECURSIVE PortionsProduct(_)
PortionsProduct(meals) ==
  IF meals = <<>> THEN 1
  ELSE FGetOr(Head(meals), "default_portions", 1)
       * PortionsProduct(Tail(meals))

\* PortionsProduct * (the sum of quantity * n / default_portions over the
\* ingredients of the record that are the item), exactly
RECURSIVE ShareFrom(_, _, _, _, _, _)
ShareFrom(acc, meal, item, n, i, pp) ==
  IF i > Len(meal.ingredients) THEN acc
  ELSE The({ShareFrom(a1, meal, item, n, i + 1, pp) :
              a1 \in {IF meal.ingredients[i].item = item
                      THEN DAdd(acc,
                                DScale(QExact(meal.ingredients[i].quantity),
                                       n * (pp \div FGetOr(meal,
                                                           "default_portions",
                                                           1))))
                      ELSE acc}})

NameShare(acc, name, item, n) ==
  IF name = "-" THEN acc
  ELSE ShareFrom(acc, get_meal_by_name(name, MEALS).meal, item, n, 1,
                 PortionsProduct(MEALS))

\* acc plus the same, summed over the mains and the salads selected in the
\* slots S
RECURSIVE ExactTotal(_, _, _)
ExactTotal(acc, S, item) ==
  IF S = {} THEN acc
  ELSE LET c == CHOOSE x \in S : TRUE
       IN The({ExactTotal(a2, S \ {c}, item) :
                 a2 \in {IF c \in SaladCells
                         THEN NameShare(a1, wSalad[c], item, SaladPeople(c))
                         ELSE a1 :
                         a1 \in {NameShare(acc, wMeal[c], item, wPeople[c])}}})

AllItems(meals) ==
  UNION {{meals[i].ingredients[j].item : j \in 1..Len(meals[i].ingredients)} :
           i \in 1..Len(meals)}

\* C6: for every item the accumulated total before rounding equals the sum,
\* over the mains and salads of the plan and their ingredients of that
\* item, of quantity * people / default_portions (1 when omitted).
C6_TotalIsExactSum ==
  out.clicked =>
    \A item \in AllItems(MEALS) :
      \E x \in {ExactTotal(FZero, Cells, item)} :
        IF x.m = <<>> THEN ~ DHas(out.shopping_list, item)
        ELSE /\ DHas(out.shopping_list, item)
             /\ DCmp(DScale(DGet(out.shopping_list, item).quantity,
                            PortionsProduct(MEALS)), x) = 0

\* C7: every final quantity is the accumulated total rounded up to
\* hundredths: it is not below the raw total and exceeds it by less than
\* 0.01.
C7_CeilToHundredths ==
  out.shown =>
    \A i \in 1..Len(out.shopping_df_data) :
      LET fin == out.shopping_df_data[i].quantity
          raw == DGet(out.shopping_list, out.shopping_df_data[i].item).quantity
      IN /\ DCmp(fin, raw) >= 0
         /\ DCmp(DScale(fin, 100), DAdd(DScale(raw, 100), DOne)) < 0

\* the first half of C7 alone: no final quantity is below its raw total
C7_NeverBelowRaw ==
  out.shown =>
    \A i \in 1..Len(out.shopping_df_data) :
      DCmp(out.shopping_df_data[i].quantity,
           DGet(out.shopping_list, out.shopping_df_data[i].item).quantity) >= 0

\* ------------------------------------------------------------------------
\* Properties of the generate handler
\* ------------------------------------------------------------------------
Known(name) == \E i \in 1..Len(MEALS) : MEALS[i].name = name

\* the entries of a plan
PlanEntries(plan) ==
  UNION {{plan[i].val[j].val : j \in 1..Len(plan[i].val)} :
           i \in 1..Len(plan)}

Resolves(e) ==
  \/ "name" \in DOMAIN e /\ Known(e.name)
  \/ "salad" \in DOMAIN e /\ Known(e.salad)

StripEntry(e, keep_people) ==
  LET main == IF "name" \in DOMAIN e /\ ~ Known(e.name)
              THEN (IF keep_people THEN FDel(e, "name")
                    ELSE FDel(FDel(e, "name"), "people"))
              ELSE e
  IN IF "salad" \in DOMAIN main /\ ~ Known(main.salad)
     THEN FDel(main, "salad") ELSE main

StripDay(d, keep_people) ==
  [j \in 1..Len(d) |->
     [key |-> d[j].key, val |-> StripEntry(d[j].val, keep_people)]]

StripPlan(plan, keep_people) ==
  [i \in 1..Len(plan) |->
     [key |-> plan[i].key, val |-> StripDay(plan[i].val, keep_people)]]

SameContributions(a, b) ==
  /\ a.shopping_list = b.shopping_list
  /\ a.prep_list = b.prep_list
  /\ a.final_plan = b.final_plan

\* what the catalog can contribute for the resolvable names of the plan
KnownItems(plan) ==
  UNION {{m.ingredients[j].item : j \in 1..Len(m.ingredients)} :
           m \in {MEALS[i] : i \in {k \in 1..Len(MEALS) :
                    \E e \in PlanEntries(plan) :
                      \/ "name" \in DOMAIN e /\ e.name = MEALS[k].name
                      \/ "salad" \in DOMAIN e /\ e.salad = MEALS[k].name}}}

CanonicalPlan ==
  SelectionPass(SelectionPass(NoSession, wMeal, wPeople, wSalad),
                wMeal, wPeople, wSalad).plan

\* C8: the shopping list holds every item once, in strictly increasing
\* order of item name, the exported text lists the items in the same
\* order, and a plan that holds the same selections in another insertion
\* order gives the same list.
C8_SortedAndOrderFree ==
  out.shown =>
    /\ \A i, j \in 1..Len(out.shopping_df_data) :
         i < j => StrLess(out.shopping_df_data[i].item,
                          out.shopping_df_data[j].item)
    /\ {out.shopping_df_data[i].item : i \in 1..Len(out.shopping_df_data)}
         = SeqToSet(DKeys(out.shopping_list))
    /\ [i \in 1..Len(out.shopping_list_text) |-> out.shopping_list_text[i].item]
         = [i \in 1..Len(out.shopping_df_data) |-> out.shopping_df_data[i].item]
    /\ out.shopping_df_data
         = ShoppingDfData(Aggregate(CanonicalPlan, MEALS).shopping_list)

\* the part of C8 about the order of the lines alone
C8_SortedOnce ==
  out.shown =>
    /\ \A i, j \in 1..Len(out.shopping_df_data) :
         i < j => StrLess(out.shopping_df_data[i].item,
                          out.shopping_df_data[j].item)
    /\ {out.shopping_df_data[i].item : i \in 1..Len(out.shopping_df_data)}
         = SeqToSet(DKeys(out.shopping_list))
    /\ [i \in 1..Len(out.shopping_list_text) |-> out.shopping_list_text[i].item]
         = [i \in 1..Len(out.shopping_df_data) |-> out.shopping_df_data[i].item]

\* a session reaches the canonical plan of the selections that another
\* session holds in another insertion order: Stew at Sunday's Lunch and
\* Dinner for one person each, and a Garden Salad at Lunch
C8_TimetableOrderReached ==
  /\ out.shown
  /\ session_state.plan = CanonicalPlan
  /\ wMeal[<<"Sunday", "Lunch">>] = "Stew"
  /\ wMeal[<<"Sunday", "Dinner">>] = "Stew"
  /\ wSalad[<<"Sunday", "Lunch">>] = "Garden Salad"
  /\ wSalad[<<"Sunday", "Dinner">>] = "-"
  /\ \A c \in Cells : wPeople[c] = 1

====
